---------------------------- MODULE Spec2Model ----------------------------
(***************************************************************************)
(* A model of mmctools' plotting.py: the PlottingInput normaliser, the     *)
(* subplot-grid helper _create_subplots_if_needed and the subplot index    *)
(* mapping of the plot procedures.                                         *)
(*                                                                         *)
(* Python values are tagged records: "str", "num", "list",                 *)
(* "tuple", "dict", "df" (a pandas DataFrame), "axes" (a grid of plot      *)
(* areas, by its numpy shape), "none" (None) and "absent" (an attribute    *)
(* that was never set, whose access raises AttributeError).                *)
(***************************************************************************)
EXTENDS Integers, Sequences, FiniteSets, TLC

VARIABLES
    pc,         \* position of the call in progress
    call,       \* the caller's argument objects, as the caller sees them now
    supplied,   \* the argument values as they were when the call was made
    self,       \* the attributes of the PlottingInput instance
    grid,       \* what _create_subplots_if_needed computed and returned
    plot,       \* the locals of the plot procedure and the series it drew
    err,        \* the exception that left the call, NoError if none
    defaults    \* the default-argument objects of plot_timeheight, which
                \* are made once, when the function is defined

vars == <<pc, call, supplied, self, grid, plot, err, defaults>>

-----------------------------------------------------------------------------
(* Bounds of the model *)

MaxTotal == 6       \* largest total subplot count handed to the grid helper
MaxCols == 4        \* largest explicit or default column count
MaxAxDim == 3       \* largest extent of one dimension of a supplied grid
MaxDatasets == 2    \* largest number of datasets in a dictionary of datasets
MaxVal == 1         \* largest value in a column of a dataset
MaxSecondary == 3   \* largest number of heights or times of a call

-----------------------------------------------------------------------------
(* Python values *)

\* the content sits in a field named after the type, so that two values
\* of different types are different records whatever they contain
None == [tag |-> "none", none |-> <<>>]
Absent == [tag |-> "absent", absent |-> <<>>]
Str(s) == [tag |-> "str", str |-> s]
Num(n) == [tag |-> "num", num |-> n]
List(s) == [tag |-> "list", list |-> s]
Tuple(s) == [tag |-> "tuple", tuple |-> s]
Bool(b) == [tag |-> "bool", bool |-> b]
Dict(f) == [tag |-> "dict", dict |-> f]
Axes(shape) == [tag |-> "axes", axes |-> shape]

\* the content of a value
Val(x) == x[x.tag]

EmptyDict == Dict([k \in {} |-> None])

\* Python's == on two modelled values: same type and same content
Same(a, b) == a = b

NoError == [type |-> "", msg |-> ""]
Error(t, m) == [type |-> t, msg |-> m]

RECURSIVE Product(_)
Product(s) == IF s = <<>> THEN 1 ELSE Head(s) * Product(Tail(s))

-----------------------------------------------------------------------------
(* _create_subplots_if_needed *)

\* matplotlib's plt.subplots squeezes the returned array: a 1x1 grid is a
\* single plot area, a grid with one row or one column is one-dimensional
SqueezedShape(nrows, ncols) ==
    IF nrows = 1 /\ ncols = 1 THEN <<>>
    ELSE IF nrows = 1 THEN <<ncols>>
    ELSE IF ncols = 1 THEN <<nrows>>
    ELSE <<nrows, ncols>>

\* a pair of numbers (nrows, ncols)
Shape(r, c) == [nrows |-> r, ncols |-> c]

\* the mutation of ExplicitShape that a wrong division order would give
ExplicitShapeSwapped(ntotal, ncols) == Shape(ncols, ntotal \div ncols)

\* lines 176-178: nrows and ncols when ncols is specified
ExplicitShape(ntotal, ncols) == Shape(ntotal \div ncols, ncols)

\* the mutation of DefaultShape that tests avoid_single_column before the
\* fieldorder swap
DefaultShapeAvoidFirst(ntotal, default_ncols, fieldorder, avoid_single_column) ==
    LET s0 == Shape(ntotal \div default_ncols, default_ncols)
        s1 == IF avoid_single_column /\ s0.ncols = 1
              THEN Shape(s0.ncols, s0.nrows) ELSE s0
    IN  IF fieldorder = "F" THEN Shape(s1.ncols, s1.nrows) ELSE s1

\* lines 180-190: nrows and ncols when ncols is None
DefaultShape(ntotal, default_ncols, fieldorder, avoid_single_column) ==
    LET s0 == Shape(ntotal \div default_ncols, default_ncols)
        s1 == IF fieldorder = "F" THEN Shape(s0.ncols, s0.nrows) ELSE s0
    IN  IF avoid_single_column /\ s1.ncols = 1
        THEN Shape(s1.ncols, s1.nrows) ELSE s1

NoGrid ==
    [err |-> NoError, created |-> FALSE, fig |-> None, ax |-> None,
     nrows |-> 0, ncols |-> 0]

\* the mutation of CreateGrid that makes the subplots before it checks ncols
CreateGridUnchecked(ntotal, ncols, default_ncols, fieldorder, avoid_single_column) ==
    IF ncols.tag = "num" /\ Val(ncols) = 0
    THEN [NoGrid EXCEPT !.err = Error("ZeroDivisionError", "")]
    ELSE IF ncols.tag = "none" /\ default_ncols = 0
    THEN [NoGrid EXCEPT !.err = Error("ZeroDivisionError", "")]
    ELSE
        LET s == IF ncols.tag = "num"
                 THEN ExplicitShape(ntotal, Val(ncols))
                 ELSE DefaultShape(ntotal, default_ncols, fieldorder,
                                   avoid_single_column)
        IN  IF s.nrows < 1 \/ s.ncols < 1
            THEN [NoGrid EXCEPT !.err = Error("ValueError", "subplots"),
                                !.nrows = s.nrows, !.ncols = s.ncols]
            ELSE [err |-> IF ncols.tag = "num" /\ ntotal % Val(ncols) /= 0
                          THEN Error("AssertionError", "ncols") ELSE NoError,
                  created |-> TRUE, fig |-> Str("new figure"),
                  ax |-> Axes(SqueezedShape(s.nrows, s.ncols)),
                  nrows |-> s.nrows, ncols |-> s.ncols]

\* lines 174-196: fig and ax are created
CreateGrid(ntotal, ncols, default_ncols, fieldorder, avoid_single_column) ==
    IF ncols.tag = "num" /\ Val(ncols) = 0
    THEN [NoGrid EXCEPT !.err = Error("ZeroDivisionError", "")]
    ELSE IF ncols.tag = "num" /\ ntotal % Val(ncols) /= 0
    THEN [NoGrid EXCEPT !.err = Error("AssertionError", "ncols")]
    ELSE IF ncols.tag = "none" /\ default_ncols = 0
    THEN [NoGrid EXCEPT !.err = Error("ZeroDivisionError", "")]
    ELSE
        LET s == IF ncols.tag = "num"
                 THEN ExplicitShape(ntotal, Val(ncols))
                 ELSE DefaultShape(ntotal, default_ncols, fieldorder,
                                   avoid_single_column)
        IN  IF s.nrows < 1 \/ s.ncols < 1
            THEN \* plt.subplots refuses a grid without rows or columns
                 [NoGrid EXCEPT !.err = Error("ValueError", "subplots"),
                                !.nrows = s.nrows, !.ncols = s.ncols]
            ELSE [err |-> NoError, created |-> TRUE, fig |-> Str("new figure"),
                  ax |-> Axes(SqueezedShape(s.nrows, s.ncols)),
                  nrows |-> s.nrows, ncols |-> s.ncols]

\* the mutation of SuppliedShape that takes a one-dimensional grid for a row
SuppliedShapeAsRow(shape) ==
    IF Len(shape) = 2 THEN Shape(shape[1], shape[2])
    ELSE Shape(1, Product(shape))

\* lines 203-210: nrows and ncols of the specified axes
SuppliedShape(shape) ==
    IF Len(shape) = 2 THEN Shape(shape[1], shape[2])
    ELSE Shape(Product(shape), 1)

\* lines 198-210: the user-specified axes are checked
CheckGrid(ntotal, fig, ax) ==
    IF Product(Val(ax)) /= ntotal
    THEN [NoGrid EXCEPT !.err = Error("AssertionError", "axes size")]
    ELSE LET s == SuppliedShape(Val(ax))
         IN  [err |-> NoError, created |-> FALSE, fig |-> fig, ax |-> ax,
              nrows |-> s.nrows, ncols |-> s.ncols]

\* lines 147-212
create_subplots_if_needed(ntotal, ncols, default_ncols, fieldorder, avoid_single_column, fig, ax) ==
    IF ax.tag = "none"
    THEN CreateGrid(ntotal, ncols, default_ncols, fieldorder, avoid_single_column)
    ELSE CheckGrid(ntotal, fig, ax)

NoCall == [proc |-> "none"]

\* the default values colorschemes={}, fieldlimits={} and fieldlabels={} of
\* plot_timeheight as the def statement makes them
NewDefaults ==
    [colorschemes |-> EmptyDict, fieldlimits |-> EmptyDict, fieldlabels |-> EmptyDict]

NoPlot ==
    [stack_by_datasets |-> None, nfields |-> 0, nsecondary |-> 0,
     ndatasets |-> 0, ntotal |-> 0, draws |-> <<>>, skipped |-> <<>>,
     rows |-> <<>>, legend |-> FALSE]

-----------------------------------------------------------------------------
(* PlottingInput *)

\* the field names the datasets and the calls draw from
AllFields == {"wspd", "wdir"}

\* the order in which a dictionary of datasets is iterated: the order of
\* insertion, 'Dataset' being the key of a dataset given on its own
KeyOrder == <<"Dataset", "A", "B", "C", "D">>

Range(s) == {s[i] : i \in DOMAIN s}

\* list(d.keys()) of a dictionary of datasets
DictKeys(d) == SelectSeq(KeyOrder, LAMBDA k : k \in DOMAIN d)

\* a pandas DataFrame: its field columns and the values in each
DataFrame(cols) == [tag |-> "df", df |-> cols]

\* mpl.cm.get_cmap(name): the colormap registered under the name
get_cmap(name) == [tag |-> "cmap", cmap |-> name]

Attributes ==
    {"datasets", "fields", "heights", "times", "fieldlimits", "fieldlabels",
     "colorschemes", "cmap", "fieldorder"}

\* lines 46-50: all arguments become attributes; an attribute that is not
\* among them does not exist
NewObject(args) ==
    [a \in Attributes |-> IF a \in DOMAIN args THEN args[a] ELSE Absent]

\* lines 59-62
WrapDataset(o) ==
    IF o.datasets.tag = "df"
    THEN [o EXCEPT !.datasets = Dict("Dataset" :> o.datasets)]
    ELSE o

\* lines 64-66
ListifyFields(o) ==
    IF o.fields.tag = "str"
    THEN [o EXCEPT !.fields = List(<<Val(o.fields)>>)]
    ELSE o

\* lines 68-73
ListifyHeights(o) ==
    IF o.heights.tag = "num"
    THEN [o EXCEPT !.heights = List(<<Val(o.heights)>>)]
    ELSE o

\* lines 75-80
ListifyTimes(o) ==
    IF o.times.tag \in {"str", "num"}
    THEN [o EXCEPT !.times = List(<<Val(o.times)>>)]
    ELSE o

\* line 85: any([field in df.columns for field in self.fields])
HasRequestedField(df, fields) ==
    \E n \in DOMAIN fields : fields[n] \in DOMAIN Val(df)

\* the mutation of CheckDatasets that is content with one good dataset
CheckDatasetsAnyDataset(o) ==
    IF \E k \in DOMAIN Val(o.datasets) : HasRequestedField(Val(o.datasets)[k], Val(o.fields))
    THEN NoError
    ELSE Error("AssertionError", DictKeys(Val(o.datasets))[1])

\* lines 82-86: the error of the first dataset, in iteration order, that has
\* none of the requested fields
CheckDatasets(o) ==
    LET keys == DictKeys(Val(o.datasets))
        bad == {n \in DOMAIN keys :
                    ~HasRequestedField(Val(o.datasets)[keys[n]], Val(o.fields))}
    IN  IF bad = {} THEN NoError
        ELSE Error("AssertionError",
                   keys[CHOOSE n \in bad : \A m \in bad : n <= m])

\* the mutation of ExpandFieldlimits that does not count the fields
ExpandFieldlimitsUnchecked(o) ==
    IF o.fieldlimits.tag = "absent"
    THEN [o |-> [o EXCEPT !.fieldlimits = EmptyDict], err |-> NoError]
    ELSE IF o.fieldlimits.tag \in {"list", "tuple"}
    THEN [o |-> [o EXCEPT !.fieldlimits = Dict(Val(o.fields)[1] :> o.fieldlimits)],
          err |-> NoError]
    ELSE [o |-> o, err |-> NoError]

\* lines 88-95
ExpandFieldlimits(o) ==
    IF o.fieldlimits.tag = "absent"
    THEN [o |-> [o EXCEPT !.fieldlimits = EmptyDict], err |-> NoError]
    ELSE IF o.fieldlimits.tag \in {"list", "tuple"}
    THEN IF Len(Val(o.fields)) = 1
         THEN [o |-> [o EXCEPT !.fieldlimits = Dict(Val(o.fields)[1] :> o.fieldlimits)],
               err |-> NoError]
         ELSE [o |-> o, err |-> Error("AssertionError", "fieldlimits")]
    ELSE [o |-> o, err |-> NoError]

\* lines 97-103
ExpandFieldlabels(o) ==
    IF o.fieldlabels.tag = "absent"
    THEN [o |-> [o EXCEPT !.fieldlabels = EmptyDict], err |-> NoError]
    ELSE IF o.fieldlabels.tag = "str"
    THEN IF Len(Val(o.fields)) = 1
         THEN [o |-> [o EXCEPT !.fieldlabels = Dict(Val(o.fields)[1] :> o.fieldlabels)],
               err |-> NoError]
         ELSE [o |-> o, err |-> Error("AssertionError", "fieldlabels")]
    ELSE [o |-> o, err |-> NoError]

\* lines 113-115: the colorschemes dictionary after the missing fields were
\* set to viridis
FilledColorschemes(cs, fields) ==
    [f \in DOMAIN cs \cup Range(fields) |->
        IF f \in DOMAIN cs THEN cs[f] ELSE Str("viridis")]

\* lines 105-118: self.cmap is set, and a colorschemes dictionary is filled
\* in place
ResolveColorschemes(o) ==
    LET o1 == [o EXCEPT !.cmap = EmptyDict]
    IN  IF o.colorschemes.tag = "str"
        THEN IF Len(Val(o.fields)) = 1
             THEN [o |-> [o1 EXCEPT !.cmap =
                            Dict(Val(o.fields)[1] :> get_cmap(Val(o.colorschemes)))],
                   err |-> NoError]
             ELSE [o |-> o1, err |-> Error("AssertionError", "colorschemes")]
        ELSE IF o.colorschemes.tag = "dict"
        THEN LET filled == FilledColorschemes(Val(o.colorschemes), Val(o.fields))
             IN  [o |-> [o1 EXCEPT
                            !.colorschemes = Dict(filled),
                            !.cmap = Dict([f \in Range(Val(o.fields)) |->
                                              get_cmap(Val(filled[f]))])],
                  err |-> NoError]
        ELSE \* no attribute colorschemes: the AttributeError is passed over
             [o |-> o1, err |-> NoError]

\* lines 120-125
CheckFieldorder(o) ==
    IF o.fieldorder.tag = "str" /\ Val(o.fieldorder) \notin {"C", "F"}
    THEN Error("AssertionError", "fieldorder")
    ELSE NoError

\* lines 55-125: the attributes when the check ends, and the error that
\* ended it if one did
check_consistency(obj) ==
    LET o4 == ListifyTimes(ListifyHeights(ListifyFields(WrapDataset(obj))))
        e5 == CheckDatasets(o4)
        r6 == ExpandFieldlimits(o4)
        r7 == ExpandFieldlabels(r6.o)
        r8 == ResolveColorschemes(r7.o)
        e9 == CheckFieldorder(r8.o)
    IN  IF e5 /= NoError THEN [o |-> o4, err |-> e5]
        ELSE IF r6.err /= NoError THEN r6
        ELSE IF r7.err /= NoError THEN r7
        ELSE IF r8.err /= NoError THEN r8
        ELSE [o |-> r8.o, err |-> e9]

\* lines 46-53: PlottingInput(datasets, fields, **argd)
PlottingInput(args) == check_consistency(NewObject(args))

\* lines 127-135
get_available_fields(o, dfname) ==
    SelectSeq(Val(o.fields), LAMBDA f : f \in DOMAIN Val(Val(o.datasets)[dfname]))

MinOf(S) == CHOOSE x \in S : \A y \in S : x <= y
MaxOf(S) == CHOOSE x \in S : \A y \in S : y <= x

\* lines 143-144: [min over the datasets of df[field].min(), max ... max()]
PooledLimits(datasets, f) ==
    List(<<MinOf({MinOf(Val(datasets[k])[f]) : k \in DOMAIN datasets}),
           MaxOf({MaxOf(Val(datasets[k])[f]) : k \in DOMAIN datasets})>>)

\* lines 141-144, from the field at the head of fields on: df[field] of a
\* dataset without that column raises KeyError, and the limits set before
\* stay set
RECURSIVE FillLimits(_, _, _)
FillLimits(limits, datasets, fields) ==
    IF fields = <<>> THEN [limits |-> limits, err |-> NoError]
    ELSE LET f == Head(fields)
         IN  IF f \in DOMAIN limits
             THEN FillLimits(limits, datasets, Tail(fields))
             ELSE IF \E k \in DOMAIN datasets : f \notin DOMAIN Val(datasets[k])
             THEN [limits |-> limits, err |-> Error("KeyError", f)]
             ELSE FillLimits(limits @@ (f :> PooledLimits(datasets, f)),
                             datasets, Tail(fields))

\* lines 137-144
set_missing_fieldlimits(o) ==
    LET r == FillLimits(Val(o.fieldlimits), Val(o.datasets), Val(o.fields))
    IN  [o |-> [o EXCEPT !.fieldlimits = Dict(r.limits)], err |-> r.err]

-----------------------------------------------------------------------------
(* Calls of PlottingInput *)

DatasetNames == <<"A", "B", "C", "D">>

\* the DataFrames whose columns are among AllFields, each with one of the
\* given sets of values
Tables(valsets) ==
    {DataFrame(cols) : cols \in UNION {[S -> valsets] : S \in SUBSET AllFields}}

\* datasets: a DataFrame, or a dictionary of up to n named DataFrames
DatasetArgs(tables, n) ==
    tables \cup
    {Dict(d) : d \in UNION {[{DatasetNames[i] : i \in 1..m} -> tables] : m \in 1..n}}

\* fields: a field name, or a list of different field names
FieldArgs ==
    {Str(f) : f \in AllFields} \cup
    {List(s) : s \in {t \in UNION {[1..n -> AllFields] : n \in 1..Cardinality(AllFields)} :
                        \A i, j \in DOMAIN t : t[i] = t[j] => i = j}}

DictsOver(value) == {Dict([f \in S |-> value]) : S \in SUBSET AllFields}

LimitArgs == {Tuple(<<0, 9>>), List(<<0, 9>>)} \cup DictsOver(Tuple(<<0, 9>>))
LabelArgs == {Str("my label")} \cup DictsOver(Str("my label"))
ColorArgs == {Str("jet")} \cup DictsOver(Str("jet"))
HeightArgs == {Num(10), List(<<10, 50>>)}
TimeArgs == {Str("t0"), Num(600), List(<<"t0", "t1">>)}
OrderArgs == {Str("C"), Str("F"), Str("X")}

\* the keyword arguments with which the four plot procedures construct
\* their PlottingInput (lines 286-292, 486-492, 735-742, 971-977)
OptionArgs ==
    [fieldlimits : LimitArgs, fieldlabels : LabelArgs, colorschemes : ColorArgs]
    \cup [heights : HeightArgs, fieldlimits : LimitArgs, fieldlabels : LabelArgs]
    \cup [times : TimeArgs, fieldlimits : LimitArgs, fieldlabels : LabelArgs,
          fieldorder : OrderArgs]
    \cup [times : TimeArgs, fieldlimits : LimitArgs, fieldlabels : LabelArgs]

\* the values every column of a dataset holds where the values play no part
PlainValues == {0..MaxVal}

InputArgs ==
    {[datasets |-> d, fields |-> f] @@ opt :
        d \in DatasetArgs(Tables(PlainValues), MaxDatasets),
        f \in FieldArgs, opt \in OptionArgs}

NoInstance == [a \in Attributes |-> Absent]

\* the caller's argument objects after the call: a dictionary that was
\* passed in is the very object the instance holds and changes
Aliased(args, o) ==
    [a \in DOMAIN args |->
        IF a \in {"colorschemes", "fieldlimits"} /\ args[a].tag = "dict"
        THEN o[a] ELSE args[a]]

\* lines 46-53 with arguments drawn from argset
ConstructFrom(argset) ==
    /\ pc = "idle"
    /\ \E args \in argset :
        LET r == PlottingInput(args)
        IN  /\ supplied' = [proc |-> "PlottingInput", args |-> args]
            /\ call' = [proc |-> "PlottingInput", args |-> Aliased(args, r.o)]
            /\ self' = IF r.err = NoError THEN r.o ELSE NoInstance
            /\ err' = r.err
            /\ pc' = IF r.err = NoError THEN "constructed" ELSE "raised"
    /\ UNCHANGED <<grid, plot, defaults>>

Construct == ConstructFrom(InputArgs)

\* lines 55-125 run once more on the instance
Recheck ==
    /\ pc = "constructed"
    /\ LET r == check_consistency(self)
       IN  /\ self' = r.o
           /\ call' = [call EXCEPT !.args = Aliased(call.args, r.o)]
           /\ err' = r.err
           /\ pc' = IF r.err = NoError THEN "rechecked" ELSE "raised"
    /\ UNCHANGED <<supplied, grid, plot, defaults>>

\* the instance is dropped and the next one can be constructed
Discard ==
    /\ pc \in {"constructed", "rechecked", "limits_set", "raised"}
    /\ call.proc = "PlottingInput"
    /\ pc' = "idle"
    /\ call' = NoCall
    /\ supplied' = NoCall
    /\ self' = NoInstance
    /\ grid' = NoGrid
    /\ plot' = NoPlot
    /\ err' = NoError
    /\ UNCHANGED defaults

-----------------------------------------------------------------------------
(* Calls of _create_subplots_if_needed on its own *)

\* the shapes of a caller-supplied ax: a single plot area, a list or
\* one-dimensional array, a two- and a three-dimensional array
AxShapes ==
    {<<>>} \cup UNION {[1..n -> 1..MaxAxDim] : n \in 1..3}

Idle ==
    /\ pc = "idle"
    /\ call = NoCall
    /\ supplied = NoCall
    /\ self = NoInstance
    /\ grid = NoGrid
    /\ plot = NoPlot
    /\ err = NoError
    /\ defaults = NewDefaults

SubplotsCall ==
    /\ pc = "idle"
    /\ \E ntotal \in 1..MaxTotal,
          ncols \in {None} \cup {Num(n) : n \in 0..MaxCols},
          default_ncols \in 1..MaxCols,
          fieldorder \in {"C", "F"},
          avoid_single_column \in BOOLEAN,
          fig \in {None, Str("caller figure")},
          ax \in {None} \cup {Axes(s) : s \in AxShapes} :
        LET res == create_subplots_if_needed(ntotal, ncols, default_ncols,
                        fieldorder, avoid_single_column, fig, ax)
            args == [proc |-> "create_subplots", ntotal |-> ntotal,
                     ncols |-> ncols, default_ncols |-> default_ncols,
                     fieldorder |-> fieldorder,
                     avoid_single_column |-> avoid_single_column,
                     fig |-> fig, ax |-> ax]
        IN  /\ call' = args
            /\ supplied' = args
            /\ grid' = res
            /\ err' = res.err
            /\ pc' = IF res.err = NoError THEN "returned" ELSE "raised"
    /\ UNCHANGED <<self, plot, defaults>>

\* the caller takes the result (or the exception) and the call is over
SubplotsDone ==
    /\ pc \in {"returned", "raised"}
    /\ call.proc = "create_subplots"
    /\ pc' = "idle"
    /\ call' = NoCall
    /\ supplied' = NoCall
    /\ self' = NoInstance
    /\ grid' = NoGrid
    /\ plot' = NoPlot
    /\ err' = NoError
    /\ UNCHANGED defaults

InitGrid == Idle

NextGrid == SubplotsCall \/ SubplotsDone

SpecGrid == InitGrid /\ [][NextGrid]_vars

\* a call of the grid helper has returned or raised
GridCallOver == pc \in {"returned", "raised"} /\ call.proc = "create_subplots"

Divides(d, n) == d /= 0 /\ \E q \in 0..n : q * d = n

\* C1: with no axes supplied and an explicit ncols, the grid is created with
\* rows = total/ncols and columns = ncols when ncols divides total, whatever
\* fieldorder and avoid_single_column are; otherwise the call fails and no
\* grid is created.
C1_ExplicitColumns ==
    (GridCallOver /\ call.ax.tag = "none" /\ call.ncols.tag = "num") =>
        IF Divides(Val(call.ncols), call.ntotal)
        THEN /\ pc = "returned" /\ err = NoError /\ grid.created
             /\ grid.ncols = Val(call.ncols)
             /\ grid.nrows * Val(call.ncols) = call.ntotal
             /\ Product(Val(grid.ax)) = call.ntotal
        ELSE /\ pc = "raised" /\ err /= NoError /\ ~grid.created
             /\ grid.ax.tag = "none"

C1_Witness ==
    /\ GridCallOver /\ call.ax.tag = "none" /\ call.ncols.tag = "num"
    /\ Val(call.ncols) = 2 /\ call.ntotal = 6
    /\ call.fieldorder = "F" /\ call.avoid_single_column
    /\ grid.created /\ grid.nrows = 3

\* C2: with no axes supplied and no explicit ncols, (rows, columns) starts as
\* (total/default_ncols, default_ncols), is swapped when fieldorder is 'F',
\* and is swapped once more when avoid_single_column is set and the column
\* count at that point is 1; fig, the only other argument, has no influence.
C2_DefaultColumns ==
    (GridCallOver /\ call.ax.tag = "none" /\ call.ncols.tag = "none") =>
        LET d == call.default_ncols
            r == call.ntotal \div d
            afterOrder == IF call.fieldorder = "F" THEN <<d, r>> ELSE <<r, d>>
            final == IF call.avoid_single_column /\ afterOrder[2] = 1
                     THEN <<afterOrder[2], afterOrder[1]>> ELSE afterOrder
        IN  <<grid.nrows, grid.ncols>> = final

C2_Witness ==
    /\ GridCallOver /\ call.ax.tag = "none" /\ call.ncols.tag = "none"
    /\ call.fieldorder = "F" /\ call.avoid_single_column
    /\ call.ntotal = 3 /\ call.default_ncols = 3
    /\ grid.created /\ grid.nrows = 1 /\ grid.ncols = 3

\* C3: with axes supplied, a number of plot areas other than the expected
\* total fails the call; otherwise no grid is created, fig and ax come back
\* as given, a two-dimensional grid reports its shape and a one-dimensional
\* grid of n plot areas reports n rows and 1 column.
C3_SuppliedAxes ==
    (GridCallOver /\ call.ax.tag = "axes") =>
        LET shape == Val(call.ax)
            n == Product(shape)
        IN  IF n /= call.ntotal
            THEN pc = "raised" /\ err.type = "AssertionError" /\ ~grid.created
            ELSE /\ pc = "returned" /\ err = NoError /\ ~grid.created
                 /\ Same(grid.fig, call.fig) /\ Same(grid.ax, call.ax)
                 /\ Len(shape) = 2 =>
                        grid.nrows = shape[1] /\ grid.ncols = shape[2]
                 /\ Len(shape) = 1 =>
                        grid.nrows = shape[1] /\ grid.ncols = 1

C3_Witness ==
    /\ GridCallOver /\ call.ax.tag = "axes" /\ pc = "returned"
    /\ Val(call.ax) = <<3>> /\ call.ntotal = 3
    /\ grid.nrows = 3 /\ grid.ncols = 1 /\ ~grid.created

-----------------------------------------------------------------------------
(* PlottingInput on its own *)

InitInput == Idle

NextInput == Construct \/ Recheck \/ Discard

SpecInput == InitInput /\ [][NextInput]_vars

\* a construction of PlottingInput has returned or raised
ConstructOver ==
    pc \in {"constructed", "raised"} /\ call.proc = "PlottingInput"

\* the datasets and the fields of the call, in whatever form they were given
SuppliedDatasets ==
    IF supplied.args.datasets.tag = "df"
    THEN "Dataset" :> supplied.args.datasets
    ELSE Val(supplied.args.datasets)

SuppliedFields ==
    IF supplied.args.fields.tag = "str"
    THEN <<Val(supplied.args.fields)>>
    ELSE Val(supplied.args.fields)

IsSupplied(a) == a \in DOMAIN supplied.args

IsBare(a) ==
    /\ IsSupplied(a)
    /\ supplied.args[a].tag \in (IF a = "fieldlimits" THEN {"list", "tuple"} ELSE {"str"})

\* the one-entry mapping the instance holds for attribute a: fieldlimits and
\* fieldlabels themselves, and cmap (field -> colormap) for colorschemes
ExpandedTo(a) ==
    LET f == SuppliedFields[1]
    IN  IF a = "colorschemes"
        THEN Same(self.cmap, Dict(f :> get_cmap(Val(supplied.args[a]))))
        ELSE Same(self[a], Dict(f :> supplied.args[a]))

Offenders ==
    {k \in DOMAIN SuppliedDatasets :
        DOMAIN Val(SuppliedDatasets[k]) \cap Range(SuppliedFields) = {}}

\* C5: the construction succeeds only if every dataset has at least one of
\* the requested fields as a column; if some dataset has none, it fails with
\* an error that names a dataset that has none, whatever the other datasets
\* and the other arguments are.
C5_DatasetCheck ==
    ConstructOver =>
        /\ pc = "constructed" => Offenders = {}
        /\ Offenders /= {} =>
              /\ pc = "raised"
              /\ err.type = "AssertionError"
              /\ err.msg \in Offenders

C5_Witness ==
    /\ ConstructOver /\ pc = "raised"
    /\ Offenders = {"B"} /\ err.msg = "B"
    /\ DOMAIN SuppliedDatasets = {"A", "B"}
    /\ IsBare("fieldlimits") /\ Len(SuppliedFields) = 2

\* the explicit input that a shorthand input stands for: a dictionary with
\* the dataset under 'Dataset', one-element lists, one-entry dictionaries
\* keyed by the single field
ExplicitForm(args) ==
    LET f == IF args.fields.tag = "str" THEN Val(args.fields) ELSE Val(args.fields)[1]
    IN  [a \in DOMAIN args |->
            IF a = "datasets" /\ args[a].tag = "df" THEN Dict("Dataset" :> args[a])
            ELSE IF a \in {"fields", "heights", "times"} /\ args[a].tag \in {"str", "num"}
            THEN List(<<Val(args[a])>>)
            ELSE IF a \in {"fieldlimits", "fieldlabels", "colorschemes"}
                    /\ args[a].tag \in {"str", "list", "tuple"}
            THEN Dict(f :> args[a])
            ELSE args[a]]

\* C6: the record made from a shorthand input is identical, attribute by
\* attribute, to the record made from the equivalent explicit input.
C6_ShorthandEquivalence ==
    (ConstructOver /\ pc = "constructed") =>
        LET r == PlottingInput(ExplicitForm(supplied.args))
        IN  /\ r.err = NoError
            /\ \A a \in Attributes : Same(self[a], r.o[a])

\* datasets is a mapping, fields, heights and times are lists, and
\* fieldlimits, fieldlabels and colorschemes are mappings
Canonical(args) ==
    /\ args.datasets.tag = "dict"
    /\ \A a \in DOMAIN args \cap {"fields", "heights", "times"} : args[a].tag = "list"
    /\ \A a \in DOMAIN args \cap {"fieldlimits", "fieldlabels", "colorschemes"} :
            args[a].tag = "dict"

\* C7: the consistency check run on an already-canonical record changes none
\* of the supplied values, also when the colorschemes mapping lacks entries
\* for some of the selected fields.
C7_Idempotence ==
    (ConstructOver /\ pc = "constructed" /\ Canonical(supplied.args)) =>
        \A a \in DOMAIN supplied.args :
            /\ Same(self[a], supplied.args[a])
            /\ Same(call.args[a], supplied.args[a])

-----------------------------------------------------------------------------
(* PlottingInput followed by set_missing_fieldlimits, as plot_timeheight    *)
(* does                                                                     *)

\* the sets of values a column can hold
ValueSets == {lo..hi : lo \in 0..MaxVal, hi \in 0..MaxVal} \ {{}}

\* a DataFrame, or a dictionary of one or two of them
ValuedDatasetArgs == DatasetArgs(Tables(ValueSets), Len(<<"A", "B">>))

\* lines 286-292 with the default fieldlabels and colorschemes
LimitInputArgs ==
    {[datasets |-> d, fields |-> f, fieldlimits |-> l,
      fieldlabels |-> EmptyDict, colorschemes |-> EmptyDict] :
        d \in ValuedDatasetArgs, f \in FieldArgs, l \in LimitArgs}

ConstructForLimits == ConstructFrom(LimitInputArgs)

\* line 293
SetMissingFieldlimits ==
    /\ pc = "constructed"
    /\ LET r == set_missing_fieldlimits(self)
       IN  /\ self' = r.o
           /\ call' = [call EXCEPT !.args = Aliased(call.args, r.o)]
           /\ err' = r.err
           /\ pc' = IF r.err = NoError THEN "limits_set" ELSE "raised"
    /\ UNCHANGED <<supplied, grid, plot, defaults>>

InitLimits == Idle

NextLimits == ConstructForLimits \/ SetMissingFieldlimits \/ Discard

SpecLimits == InitLimits /\ [][NextLimits]_vars

\* set_missing_fieldlimits has returned or raised (the constructor raises
\* AssertionError only)
SetMissingOver ==
    /\ call.proc = "PlottingInput"
    /\ pc = "limits_set" \/ (pc = "raised" /\ err.type = "KeyError")

\* the explicit ranges of the call, keyed by field
ExplicitLimits ==
    IF supplied.args.fieldlimits.tag = "dict"
    THEN Val(supplied.args.fieldlimits)
    ELSE SuppliedFields[1] :> supplied.args.fieldlimits

\* the values of field f in the datasets that have it
PooledValues(f) ==
    UNION {Val(SuppliedDatasets[k])[f] :
            k \in {n \in DOMAIN SuppliedDatasets : f \in DOMAIN Val(SuppliedDatasets[n])}}

\* C8: after set_missing_fieldlimits every requested field without an
\* explicit range has the range [min, max] of its values pooled over exactly
\* the datasets that contain it, a dataset without the field causing no
\* failure, and every field with an explicit range keeps it.
C8_MissingLimits ==
    SetMissingOver =>
        /\ pc = "limits_set"
        /\ \A f \in Range(SuppliedFields) :
              IF f \in DOMAIN ExplicitLimits
              THEN Val(self.fieldlimits)[f] = ExplicitLimits[f]
              ELSE PooledValues(f) /= {} =>
                     Val(self.fieldlimits)[f] =
                        List(<<MinOf(PooledValues(f)), MaxOf(PooledValues(f))>>)

-----------------------------------------------------------------------------
(* The plot procedures *)

\* lines 16-28, for the fields of the model
standard_fieldlabels ==
    [f \in AllFields |->
        Str(IF f = "wspd" THEN "Wind speed [m/s]" ELSE "Wind direction")]

\* {**base, **over}
MergeDicts(base, over) ==
    [k \in DOMAIN base \cup DOMAIN over |->
        IF k \in DOMAIN over THEN over[k] ELSE base[k]]

\* the truth value of an argument in an if statement
Truthy(x) ==
    \/ x.tag = "bool" /\ Val(x)
    \/ x.tag = "str" /\ Val(x) /= ""

\* the mutation of StackingPolicy that turns the default around
StackingPolicyInverted(stack_by_datasets, nsecondary) ==
    IF stack_by_datasets.tag = "none"
    THEN Bool(nsecondary > 1)
    ELSE stack_by_datasets

\* lines 503-507 and 753-757
StackingPolicy(stack_by_datasets, nsecondary) ==
    IF stack_by_datasets.tag = "none"
    THEN IF nsecondary > 1 THEN Bool(FALSE) ELSE Bool(TRUE)
    ELSE stack_by_datasets

\* the mutation of TotalSubplots that gives every height (time) its subplots
TotalSubplotsBySecondary(stack_by_datasets, nfields, nsecondary, ndatasets) ==
    nfields * nsecondary

\* lines 509-512 and 759-762
TotalSubplots(stack_by_datasets, nfields, nsecondary, ndatasets) ==
    IF Truthy(stack_by_datasets)
    THEN nfields * nsecondary
    ELSE nfields * ndatasets

\* the mutation of TimehistoryAxi that stacks the other way
TimehistoryAxiSwapped(stack_by_datasets, i, j, k, nfields) ==
    IF Truthy(stack_by_datasets) THEN i * nfields + j ELSE k * nfields + j

\* lines 560-562 and 573-575
TimehistoryAxi(stack_by_datasets, i, j, k, nfields) ==
    IF Truthy(stack_by_datasets) THEN k * nfields + j ELSE i * nfields + j

\* the mutation of ProfileAxi that takes 'C' for 'F'
ProfileAxiOrderSwapped(stack_by_datasets, fieldorder, i, j, k, nfields, ntimes, ndatasets) ==
    IF Truthy(stack_by_datasets)
    THEN IF fieldorder = "C" THEN k * nfields + j ELSE j * ntimes + k
    ELSE IF fieldorder = "C" THEN i * nfields + j ELSE j * ndatasets + i

\* lines 801-806 and 821-826
ProfileAxi(stack_by_datasets, fieldorder, i, j, k, nfields, ntimes, ndatasets) ==
    IF Truthy(stack_by_datasets)
    THEN IF fieldorder = "C" THEN j * ntimes + k ELSE k * nfields + j
    ELSE IF fieldorder = "C" THEN j * ndatasets + i ELSE i * nfields + j

\* lines 646-648
TimehistoryLegend(stack_by_datasets, ndatasets, nheights) ==
    \/ Truthy(stack_by_datasets) /\ ndatasets > 1
    \/ ~Truthy(stack_by_datasets) /\ nheights > 1

\* lines 885-887: stack_by_datasets is compared with two strings
ProfileLegend(stack_by_datasets, ndatasets, ntimes) ==
    \/ stack_by_datasets = Str("datasets") /\ ndatasets > 1
    \/ stack_by_datasets = Str("times") /\ ntimes > 1

\* the two procedures with a stack_by_datasets parameter
PlotProcs == {"plot_timehistory_at_height", "plot_profile"}

\* the four plot procedures
FigureProcs == PlotProcs \cup {"plot_timeheight", "plot_spectrum"}

\* lines 31-35, for the fields of the model
standard_spectrumlabels == "wspd" :> Str("E_UU [m2/s]")

\* what iterating or indexing a string gives: its characters
Chars(s) ==
    CASE s = "wspd" -> <<"w", "s", "p", "d">>
      [] s = "wdir" -> <<"w", "d", "i", "r">>

\* the elements of fields as the caller passed it
Elements(fields) ==
    IF fields.tag = "str" THEN Chars(Val(fields)) ELSE Val(fields)

\* default_colors[n]
DefaultColor(n) == [tag |-> "color", color |-> n]

\* the label formatted from the k-th height or time of the call
\* ('z = {:.1f} m', '{:g} s' or a date)
SecondaryLabel(k) == [tag |-> "label", label |-> k]

\* lines 340-344, 554-589, 798-843 and 1025: the options a procedure sets
\* itself for the series of dataset dfname (index t.i), field (index t.j)
\* and height or time index t.k
BaseProperties(proc, o, p, t, dfname, field) ==
    LET stacked ==
            IF Truthy(p.stack_by_datasets)
            THEN "label" :> Str(dfname) @@ "color" :> DefaultColor(t.i)
            ELSE "label" :> SecondaryLabel(t.k) @@ "color" :> DefaultColor(t.k)
    IN  CASE proc = "plot_timeheight" ->
                "vmin" :> Num(Val(Val(o.fieldlimits)[field])[1])
                @@ "vmax" :> Num(Val(Val(o.fieldlimits)[field])[2])
                @@ "cmap" :> Val(o.cmap)[field]
          [] proc = "plot_timehistory_at_height" ->
                "linestyle" :> Str("-") @@ "marker" :> None @@ stacked
          [] proc = "plot_profile" -> stacked
          [] proc = "plot_spectrum" -> "label" :> Str(dfname)

\* the mutation of PlottingProperties that lets the general options win
PlottingPropertiesGeneralLast(base, kwargs, datasetkwargs, dfname) ==
    IF dfname \in DOMAIN Val(datasetkwargs)
    THEN MergeDicts(MergeDicts(base, Val(Val(datasetkwargs)[dfname])), Val(kwargs))
    ELSE MergeDicts(base, Val(kwargs))

\* lines 354-357, 599-602, 850-853 and 1042-1045
PlottingProperties(base, kwargs, datasetkwargs, dfname) ==
    IF dfname \in DOMAIN Val(datasetkwargs)
    THEN MergeDicts(MergeDicts(base, Val(kwargs)), Val(Val(datasetkwargs)[dfname]))
    ELSE MergeDicts(base, Val(kwargs))

\* the heights (times) of a call: one value, or a list of up to
\* MaxSecondary values
HeightChoices ==
    {Num(10)} \cup {List([n \in 1..m |-> 10 + 40 * (n - 1)]) : m \in 1..MaxSecondary}

TimeChoices ==
    {Str("t0")} \cup {List([n \in 1..m |-> 600 * n]) : m \in 1..MaxSecondary}

StackChoices == {None, Bool(TRUE), Bool(FALSE)}

PlotDatasets == DatasetArgs(Tables(PlainValues), MaxDatasets)

\* a dataset alone and two datasets, the second without 'wdir'
OptionDatasets ==
    LET full == DataFrame([f \in AllFields |-> 0..1])
    IN  {full, Dict("A" :> full @@ "B" :> DataFrame("wspd" :> 0..1))}

OptionFields == {Str("wspd"), List(<<"wspd", "wdir">>)}

\* **kwargs of a call
KwargChoices ==
    {EmptyDict,
     Dict("label" :> Str("general")),
     Dict("label" :> Str("general") @@ "linewidth" :> Num(2))}

\* datasetkwargs of a call
DatasetKwargChoices ==
    {EmptyDict,
     Dict("A" :> Dict("label" :> Str("special"))),
     Dict("A" :> Dict("linewidth" :> Num(3) @@ "vmin" :> Num(5)) @@ "B" :> EmptyDict),
     Dict("Dataset" :> Dict("label" :> Str("special") @@ "color" :> Str("red")))}

\* fig and ax of a call: none, or the caller's own figure with a list or a
\* two-dimensional array of plot areas
FigAxChoices ==
    {[fig |-> None, ax |-> None]} \cup
    {[fig |-> Str("caller figure"), ax |-> Axes(s)] : s \in {<<2>>, <<2, 2>>}}

\* the arguments the four procedures have in common: the datasets and
\* fields of all kinds with the other arguments at their defaults, then
\* supplied plot areas with bare and mapped fieldlimits and fieldlabels, then
\* general and dataset-specific options
CommonArgs ==
    [datasets : PlotDatasets, fields : FieldArgs, fig : {None}, ax : {None},
     fieldlimits : {EmptyDict}, fieldlabels : {EmptyDict},
     datasetkwargs : {EmptyDict}, kwargs : {EmptyDict}]
    \cup
    {[datasets |-> d, fields |-> f, fig |-> fa.fig, ax |-> fa.ax,
      fieldlimits |-> lim, fieldlabels |-> lab,
      datasetkwargs |-> EmptyDict, kwargs |-> EmptyDict] :
        d \in OptionDatasets, f \in OptionFields, fa \in FigAxChoices,
        lim \in {Tuple(<<0, 9>>), Dict([x \in AllFields |-> Tuple(<<0, 9>>)])},
        lab \in {Str("my label"), Dict("wspd" :> Str("my label"))}}
    \cup
    [datasets : OptionDatasets, fields : OptionFields, fig : {None}, ax : {None},
     fieldlimits : {Dict([x \in AllFields |-> Tuple(<<0, 9>>)])},
     fieldlabels : {EmptyDict},
     datasetkwargs : DatasetKwargChoices, kwargs : KwargChoices]

\* lines 215-229: the arguments of the model's calls; the others keep their
\* defaults.  colorschemes, fieldlimits and fieldlabels are objects of the
\* caller's own
TimeheightArgs ==
    {c @@ e : c \in CommonArgs,
              e \in [colorschemes : {EmptyDict}, ncols : {Num(1), Num(2)}]
                    \cup [colorschemes : {Str("jet")}, ncols : {Num(1)}]}

\* lines 406-420
TimehistoryArgs ==
    {c @@ e : c \in CommonArgs,
              e \in [heights : HeightChoices, stack_by_datasets : StackChoices,
                     ncols : {Num(1), Num(2)}]}

\* lines 653-668
ProfileArgs ==
    {c @@ e : c \in CommonArgs,
              e \in [times : TimeChoices, stack_by_datasets : StackChoices,
                     fieldorder : {Str("C"), Str("F")}, ncols : {None, Num(2)}]
                    \cup [times : {Str("t0")}, stack_by_datasets : {None},
                          fieldorder : {Str("X")}, ncols : {None}]}

\* lines 892-907
SpectrumArgs ==
    {c @@ e : c \in CommonArgs,
              e \in [height : {Num(10)}, times : TimeChoices, ncols : {None, Num(1)}]}

\* the keyword arguments handed to PlottingInput (lines 286-292, 486-492,
\* 735-742 and 971-977)
InputKeys(proc) ==
    CASE proc = "plot_timeheight" ->
            {"datasets", "fields", "fieldlimits", "fieldlabels", "colorschemes"}
      [] proc = "plot_timehistory_at_height" ->
            {"datasets", "fields", "heights", "fieldlimits", "fieldlabels"}
      [] proc = "plot_profile" ->
            {"datasets", "fields", "times", "fieldlimits", "fieldlabels", "fieldorder"}
      [] proc = "plot_spectrum" ->
            {"datasets", "fields", "times", "fieldlimits", "fieldlabels"}

Secondary(proc) == IF proc = "plot_timehistory_at_height" THEN "heights" ELSE "times"

\* the objects the parameters are bound to: a parameter of plot_timeheight
\* whose argument is left out is bound to the default object
Bound(proc, args, dflt) ==
    IF proc = "plot_timeheight"
    THEN [a \in DOMAIN args \cup DOMAIN dflt |->
            IF a \in DOMAIN args THEN args[a] ELSE dflt[a]]
    ELSE args

\* lines 286-293, 486-492, 735-742 and 971-977
Normalise(proc, b) ==
    LET r == PlottingInput([a \in InputKeys(proc) |-> b[a]])
    IN  IF proc = "plot_timeheight" /\ r.err = NoError
        THEN set_missing_fieldlimits(r.o)
        ELSE r

\* lines 295-297, 494-512, 744-762 and 979-982
Counts(proc, o, stack_by_datasets) ==
    LET nfields == Len(Val(o.fields))
        ndatasets == Cardinality(DOMAIN Val(o.datasets))
        nsecondary == IF proc = "plot_timeheight" THEN 1
                      ELSE Len(Val(o[Secondary(proc)]))
        stack == IF proc \in PlotProcs
                 THEN StackingPolicy(stack_by_datasets, nsecondary)
                 ELSE None
    IN  [stack_by_datasets |-> stack, nfields |-> nfields,
         nsecondary |-> nsecondary, ndatasets |-> ndatasets,
         ntotal |-> CASE proc = "plot_timeheight" -> nfields * ndatasets
                      [] proc = "plot_spectrum" -> nfields * nsecondary
                      [] proc \in PlotProcs ->
                            TotalSubplots(stack, nfields, nsecondary, ndatasets)]

\* lines 286-301, 486-512, 735-762 and 971-986: the input is normalised,
\* the standard labels are merged in, the stacking is decided and the
\* subplots are counted
Enter(proc, args) ==
    LET b == Bound(proc, args, defaults)
        r == Normalise(proc, b)
        after == Aliased(b, r.o)
        n == Counts(proc, r.o, IF proc \in PlotProcs THEN args.stack_by_datasets ELSE None)
        standard == IF proc = "plot_spectrum" THEN standard_spectrumlabels
                    ELSE standard_fieldlabels
    IN  /\ supplied' = [proc |-> proc, args |-> args]
        /\ call' = [proc |-> proc, args |-> [a \in DOMAIN args |-> after[a]]]
        /\ defaults' = [a \in DOMAIN defaults |->
                            IF proc = "plot_timeheight" /\ a \notin DOMAIN args
                            THEN after[a] ELSE defaults[a]]
        /\ err' = r.err
        /\ grid' = NoGrid
        /\ IF r.err /= NoError
           THEN /\ pc' = "raised"
                /\ self' = NoInstance
                /\ plot' = NoPlot
           ELSE /\ pc' = "grid"
                /\ self' = [r.o EXCEPT !.fieldlabels =
                              Dict(MergeDicts(standard, Val(r.o.fieldlabels)))]
                /\ plot' = [NoPlot EXCEPT
                              !.stack_by_datasets = n.stack_by_datasets,
                              !.nfields = n.nfields,
                              !.nsecondary = n.nsecondary,
                              !.ndatasets = n.ndatasets,
                              !.ntotal = n.ntotal]

TimeheightCall ==
    /\ pc = "idle"
    /\ \E args \in TimeheightArgs : Enter("plot_timeheight", args)

TimehistoryCall ==
    /\ pc = "idle"
    /\ \E args \in TimehistoryArgs : Enter("plot_timehistory_at_height", args)

ProfileCall ==
    /\ pc = "idle"
    /\ \E args \in ProfileArgs : Enter("plot_profile", args)

SpectrumCall ==
    /\ pc = "idle"
    /\ \E args \in SpectrumArgs : Enter("plot_spectrum", args)

\* lines 303-311, 514-521, 764-775 and 988-999
PlotGrid ==
    /\ pc = "grid"
    /\ LET a == call.args
           res == CASE call.proc \in {"plot_timeheight", "plot_timehistory_at_height"} ->
                        create_subplots_if_needed(plot.ntotal, a.ncols, 1, "C",
                                                  FALSE, a.fig, a.ax)
                    [] call.proc = "plot_profile" ->
                        create_subplots_if_needed(plot.ntotal, a.ncols,
                                                  plot.ntotal \div plot.nfields,
                                                  Val(self.fieldorder), TRUE,
                                                  a.fig, a.ax)
                    [] call.proc = "plot_spectrum" ->
                        create_subplots_if_needed(plot.ntotal, a.ncols,
                                                  plot.nsecondary, "C", TRUE,
                                                  a.fig, a.ax)
       IN  /\ grid' = res
           /\ err' = res.err
           /\ pc' = IF res.err = NoError THEN "draw" ELSE "raised"
    /\ UNCHANGED <<call, supplied, self, plot, defaults>>

\* the passes of the loops over datasets, fields and heights (times), in
\* order, with indices from 0
Iterations(ndatasets, nfields, nsecondary) ==
    [n \in 1..(ndatasets * nfields * nsecondary) |->
        [i |-> (n - 1) \div (nfields * nsecondary),
         j |-> ((n - 1) \div nsecondary) % nfields,
         k |-> (n - 1) % nsecondary]]

\* the mutation of TimeheightAxi that counts the datasets per field
TimeheightAxiByField(i, j, nfields, ndatasets) == j * ndatasets + i

\* line 347
TimeheightAxi(i, j, nfields, ndatasets) == i * nfields + j

\* the mutation of SpectrumAxi that steps by the number of fields
SpectrumAxiWrongStride(j, k, nfields, ntimes) == j * nfields + k

\* line 1028, for field index j and time index k (k and i in the source)
SpectrumAxi(j, k, nfields, ntimes) == j * ntimes + k

\* the index of the plot area of one pass
Axi(proc, o, p, t) ==
    CASE proc = "plot_timeheight" -> TimeheightAxi(t.i, t.j, p.nfields, p.ndatasets)
      [] proc = "plot_timehistory_at_height" ->
            TimehistoryAxi(p.stack_by_datasets, t.i, t.j, t.k, p.nfields)
      [] proc = "plot_profile" ->
            ProfileAxi(p.stack_by_datasets, Val(o.fieldorder), t.i, t.j, t.k,
                       p.nfields, p.nsecondary, p.ndatasets)
      [] proc = "plot_spectrum" -> SpectrumAxi(t.j, t.k, p.nfields, p.nsecondary)

\* the sequence the loop over the fields runs through: args.fields, but in
\* plot_timeheight the fields argument as it was passed (line 333)
LoopFields(proc, o, a) ==
    IF proc = "plot_timeheight" THEN Elements(a.fields) ELSE Val(o.fields)

\* d[k], None standing for the KeyError that the caller passes over
Lookup(d, k) == IF k \in DOMAIN d THEN d[k] ELSE None

\* lines 320-375, 527-616, 781-867 and 1005-1048: what the loops do, in
\* order: a warning for a field that a dataset does not have, a series for
\* every height (time) of a field that it has, with the options handed to
\* the drawing primitive and the field label and limits set on its plot area
LoopEvents(proc, o, p, a) ==
    LET keys == DictKeys(Val(o.datasets))
        loopfields == LoopFields(proc, o, a)
        passes == Iterations(p.ndatasets, Len(loopfields), p.nsecondary)
        event(t) ==
            LET dfname == keys[t.i + 1]
                field == loopfields[t.j + 1]
            IN  IF field \in Range(get_available_fields(o, dfname))
                THEN [kind |-> "draw", i |-> t.i, j |-> t.j, k |-> t.k,
                      dataset |-> dfname, field |-> field,
                      axi |-> Axi(proc, o, p, t),
                      props |-> PlottingProperties(
                                    BaseProperties(proc, o, p, t, dfname, field),
                                    a.kwargs, a.datasetkwargs, dfname),
                      fieldlabel |-> IF proc = "plot_spectrum" THEN None
                                     ELSE Lookup(Val(o.fieldlabels), field),
                      fieldlimits |-> IF proc \in PlotProcs
                                      THEN Lookup(Val(o.fieldlimits), field)
                                      ELSE None]
                ELSE [kind |-> "skip", i |-> t.i, j |-> t.j, k |-> t.k,
                      dataset |-> dfname, field |-> field, axi |-> -1]
        all == [n \in DOMAIN passes |-> event(passes[n])]
    IN  SelectSeq(all, LAMBDA e : e.kind = "draw" \/ e.k = 0)

\* the events up to the first series whose plot area does not exist
\* (axv[axi] raises IndexError), and that error
RunLoop(events, size) ==
    LET bad == {n \in DOMAIN events :
                    events[n].kind = "draw" /\ events[n].axi \notin 0..(size - 1)}
    IN  IF bad = {} THEN [events |-> events, err |-> NoError]
        ELSE [events |-> SubSeq(events, 1, MinOf(bad) - 1),
              err |-> Error("IndexError", "axv")]

\* lines 1057-1064 for row r: fields, fieldlabels and fieldlimits are the
\* arguments as they were passed; only KeyError is passed over
LabelRow(a, r, ncols) ==
    LET elems == Elements(a.fields)
        row(e, lab, lim) == [axis |-> r * ncols, ylabel |-> lab, ylim |-> lim, err |-> e]
    IN  IF r + 1 > Len(elems)
        THEN row(Error("IndexError", "fields"), None, None)
        ELSE IF a.fieldlabels.tag /= "dict"
        THEN row(Error("TypeError", "fieldlabels"), None, None)
        ELSE IF a.fieldlimits.tag /= "dict"
        THEN row(Error("TypeError", "fieldlimits"),
                 Lookup(Val(a.fieldlabels), elems[r + 1]), None)
        ELSE row(NoError, Lookup(Val(a.fieldlabels), elems[r + 1]),
                 Lookup(Val(a.fieldlimits), elems[r + 1]))

\* lines 1056-1064: the rows up to and with the first that raises
LabelRows(a, nrows, ncols) ==
    LET rows == [r \in 1..nrows |-> LabelRow(a, r - 1, ncols)]
        bad == {r \in 1..nrows : rows[r].err /= NoError}
    IN  IF bad = {} THEN [rows |-> rows, err |-> NoError]
        ELSE [rows |-> SubSeq(rows, 1, MinOf(bad)), err |-> rows[MinOf(bad)].err]

\* lines 1076-1077
SpectrumLegend(ndatasets) == ndatasets > 1

\* lines 319-403, 526-650, 780-889 and 1004-1079: the loops, the row labels
\* of the spectrum plot and the legend
PlotDraw ==
    /\ pc = "draw"
    /\ LET r == RunLoop(LoopEvents(call.proc, self, plot, call.args),
                        grid.nrows * grid.ncols)
           labelled == IF call.proc = "plot_spectrum" /\ r.err = NoError
                       THEN LabelRows(call.args, grid.nrows, grid.ncols)
                       ELSE [rows |-> <<>>, err |-> r.err]
           legend == CASE call.proc = "plot_timeheight" -> FALSE
                       [] call.proc = "plot_timehistory_at_height" ->
                            TimehistoryLegend(plot.stack_by_datasets,
                                              plot.ndatasets, plot.nsecondary)
                       [] call.proc = "plot_profile" ->
                            ProfileLegend(plot.stack_by_datasets,
                                          plot.ndatasets, plot.nsecondary)
                       [] call.proc = "plot_spectrum" -> SpectrumLegend(plot.ndatasets)
       IN  /\ plot' = [plot EXCEPT
                          !.draws = SelectSeq(r.events, LAMBDA e : e.kind = "draw"),
                          !.skipped = SelectSeq(r.events, LAMBDA e : e.kind = "skip"),
                          !.rows = labelled.rows,
                          !.legend = labelled.err = NoError /\ legend]
           /\ err' = labelled.err
           /\ pc' = IF labelled.err = NoError THEN "returned" ELSE "raised"
    /\ UNCHANGED <<call, supplied, self, grid, defaults>>

\* the caller has fig and ax (or the exception) and the call is over; the
\* default objects of the procedure stay
PlotReturn ==
    /\ pc \in {"returned", "raised"}
    /\ call.proc \in FigureProcs
    /\ pc' = "idle"
    /\ call' = NoCall
    /\ supplied' = NoCall
    /\ self' = NoInstance
    /\ grid' = NoGrid
    /\ plot' = NoPlot
    /\ err' = NoError
    /\ UNCHANGED defaults

InitPlot == Idle

NextPlot ==
    \/ TimeheightCall \/ TimehistoryCall \/ ProfileCall \/ SpectrumCall
    \/ PlotGrid \/ PlotDraw \/ PlotReturn

SpecPlot == InitPlot /\ [][NextPlot]_vars

\* a plot procedure has normalised its input and decided the stacking
Entered ==
    /\ call.proc \in PlotProcs
    /\ pc \in {"grid", "draw", "returned"} \/ (pc = "raised" /\ plot /= NoPlot)

\* the number of heights (times) the caller asked for
SuppliedSecondary ==
    LET x == supplied.args[Secondary(supplied.proc)]
    IN  IF x.tag = "list" THEN Len(Val(x)) ELSE 1

\* C9: in the time-history and profile plots an unspecified
\* stack_by_datasets becomes stacking by dataset (total = nfields x secondary
\* count) with exactly one height (time) and stacking by height (time)
\* (total = nfields x ndatasets) with more than one; a specified
\* stack_by_datasets is used unchanged for any secondary count.
C9_DefaultStacking ==
    Entered =>
        LET given == supplied.args.stack_by_datasets
            nfields == Len(SuppliedFields)
            ndatasets == Cardinality(DOMAIN SuppliedDatasets)
        IN  /\ (given = None /\ SuppliedSecondary = 1) =>
                    /\ plot.stack_by_datasets = Bool(TRUE)
                    /\ plot.ntotal = nfields * SuppliedSecondary
            /\ (given = None /\ SuppliedSecondary > 1) =>
                    /\ plot.stack_by_datasets = Bool(FALSE)
                    /\ plot.ntotal = nfields * ndatasets
            /\ given /= None =>
                    /\ plot.stack_by_datasets = given
                    /\ plot.ntotal = IF given = Bool(TRUE)
                                     THEN nfields * SuppliedSecondary
                                     ELSE nfields * ndatasets

C9_Witness ==
    /\ Entered /\ pc = "returned" /\ call.proc = "plot_profile"
    /\ supplied.args.stack_by_datasets = None
    /\ SuppliedSecondary = 2 /\ Len(SuppliedFields) = 2
    /\ Cardinality(DOMAIN SuppliedDatasets) = 1
    /\ plot.stack_by_datasets = Bool(FALSE) /\ plot.ntotal = 2
    /\ Len(plot.draws) = 4

\* C10: every series the time-history plot draws for dataset index i, field
\* index j and height index k goes to subplot k*nfields + j when stacking by
\* dataset and to subplot i*nfields + j when stacking by height.
C10_TimehistoryIndex ==
    (call.proc = "plot_timehistory_at_height" /\ pc = "returned") =>
        \A n \in DOMAIN plot.draws :
            LET d == plot.draws[n]
                nfields == Len(SuppliedFields)
            IN  /\ d.dataset = DictKeys(SuppliedDatasets)[d.i + 1]
                /\ d.field = SuppliedFields[d.j + 1]
                /\ d.k \in 0..(SuppliedSecondary - 1)
                /\ d.axi = IF plot.stack_by_datasets = Bool(TRUE)
                           THEN d.k * nfields + d.j
                           ELSE d.i * nfields + d.j

C10_Witness ==
    /\ call.proc = "plot_timehistory_at_height" /\ pc = "returned"
    /\ plot.stack_by_datasets = Bool(TRUE)
    /\ plot.ndatasets = 2 /\ plot.nfields = 2 /\ plot.nsecondary = 2
    /\ \E n \in DOMAIN plot.draws :
            /\ plot.draws[n].i = 1 /\ plot.draws[n].j = 1 /\ plot.draws[n].k = 1
            /\ plot.draws[n].axi = 3
    /\ Len(plot.draws) = 8

\* C11: every series the profile plot draws for dataset index i, field index
\* j and time index k goes, with fieldorder 'C', to subplot j*ntimes + k when
\* stacking by dataset and j*ndatasets + i when stacking by time (fields
\* vary slowest), and with fieldorder 'F' to k*nfields + j, respectively
\* i*nfields + j (fields vary fastest).
C11_ProfileIndex ==
    (call.proc = "plot_profile" /\ pc = "returned") =>
        \A n \in DOMAIN plot.draws :
            LET d == plot.draws[n]
                nfields == Len(SuppliedFields)
                ndatasets == Cardinality(DOMAIN SuppliedDatasets)
                ntimes == SuppliedSecondary
                byDataset == plot.stack_by_datasets = Bool(TRUE)
            IN  /\ d.dataset = DictKeys(SuppliedDatasets)[d.i + 1]
                /\ d.field = SuppliedFields[d.j + 1]
                /\ d.k \in 0..(ntimes - 1)
                /\ (supplied.args.fieldorder = Str("C") /\ byDataset) =>
                        d.axi = d.j * ntimes + d.k
                /\ (supplied.args.fieldorder = Str("C") /\ ~byDataset) =>
                        d.axi = d.j * ndatasets + d.i
                /\ (supplied.args.fieldorder = Str("F") /\ byDataset) =>
                        d.axi = d.k * nfields + d.j
                /\ (supplied.args.fieldorder = Str("F") /\ ~byDataset) =>
                        d.axi = d.i * nfields + d.j

C11_Witness ==
    /\ call.proc = "plot_profile" /\ pc = "returned"
    /\ supplied.args.fieldorder = Str("C")
    /\ plot.stack_by_datasets = Bool(FALSE)
    /\ plot.ndatasets = 2 /\ plot.nfields = 2 /\ plot.nsecondary = 2
    /\ \E n \in DOMAIN plot.draws :
            /\ plot.draws[n].i = 1 /\ plot.draws[n].j = 0 /\ plot.draws[n].k = 1
            /\ plot.draws[n].axi = 1
    /\ \E n \in DOMAIN plot.draws :
            /\ plot.draws[n].i = 0 /\ plot.draws[n].j = 1 /\ plot.draws[n].k = 0
            /\ plot.draws[n].axi = 2

\* the time-history plot was called with more than one height and without
\* stack_by_datasets, and has decided the stacking
DefaultStackingOfHeights ==
    /\ Entered /\ call.proc = "plot_timehistory_at_height"
    /\ supplied.args.stack_by_datasets = None
    /\ SuppliedSecondary > 1

\* C13 as stated: under the default stacking policy of the time-history
\* plot with more than one height, each height gets its own subplot per
\* field: the total is nfields x nheights, and with the default single
\* column the grid has that many rows (3 for one dataset, fields [wspd] and
\* heights [10, 50, 90]).
C13_SubplotPerHeight ==
    DefaultStackingOfHeights =>
        /\ plot.ntotal = Len(SuppliedFields) * SuppliedSecondary
        /\ (pc \in {"draw", "returned"} /\ supplied.args.ax = None
                    /\ supplied.args.ncols = Num(1)) =>
                (grid.nrows = Len(SuppliedFields) * SuppliedSecondary /\ grid.ncols = 1)

\* C13 amended: under the default stacking policy of the time-history plot
\* with more than one height, each dataset gets its own subplot per field
\* (total = nfields x ndatasets) and the heights are overlaid in it as legend
\* entries; with the default single column the grid the call creates is
\* (total, 1).
C13_HeightsOverlaid ==
    DefaultStackingOfHeights =>
        LET nfields == Len(SuppliedFields)
            ndatasets == Cardinality(DOMAIN SuppliedDatasets)
        IN  /\ plot.stack_by_datasets = Bool(FALSE)
            /\ plot.ntotal = nfields * ndatasets
            /\ (pc \in {"draw", "returned"} /\ supplied.args.ax = None
                    /\ supplied.args.ncols = Num(1)) =>
                    (grid.created /\ grid.nrows = nfields * ndatasets /\ grid.ncols = 1)
            /\ pc = "returned" =>
                    /\ plot.legend
                    /\ \A n \in DOMAIN plot.draws :
                            plot.draws[n].axi = plot.draws[n].i * nfields + plot.draws[n].j
                    /\ \A n, m \in DOMAIN plot.draws :
                            (plot.draws[n].i = plot.draws[m].i /\ plot.draws[n].j = plot.draws[m].j)
                                => plot.draws[n].axi = plot.draws[m].axi

\* one dataset, fields [wspd], heights [10, 50, 90], defaults
C13_Witness ==
    /\ DefaultStackingOfHeights /\ pc = "returned"
    /\ Cardinality(DOMAIN SuppliedDatasets) = 1
    /\ supplied.args.fields = List(<<"wspd">>)
    /\ supplied.args.heights = List(<<10, 50, 90>>)
    /\ supplied.args.ncols = Num(1)
    /\ plot.ntotal = 1 /\ grid.nrows = 1 /\ grid.ncols = 1
    /\ Len(plot.draws) = 3
    /\ \A n \in DOMAIN plot.draws : plot.draws[n].axi = 0
    /\ plot.legend

\* C18: plot_profile adds a legend exactly when a subplot overlays more than
\* one entry: stacking by datasets with more than one dataset, or stacking
\* by times with more than one time, the condition of
\* plot_timehistory_at_height.
C18_ProfileLegend ==
    (call.proc = "plot_profile" /\ pc = "returned") =>
        (plot.legend <=>
            \/ plot.stack_by_datasets = Bool(TRUE) /\ plot.ndatasets > 1
            \/ plot.stack_by_datasets = Bool(FALSE) /\ plot.nsecondary > 1)

\* C12: plot_timeheight counts ndatasets x nfields subplots and draws the
\* series of dataset index i and field index j in subplot i*nfields + j;
\* with the default single column the grid it creates is
\* (ndatasets*nfields, 1).
C12_ContourLayout ==
    (call.proc = "plot_timeheight" /\ pc \in {"grid", "draw", "returned"}) =>
        LET nfields == Len(SuppliedFields)
            ndatasets == Cardinality(DOMAIN SuppliedDatasets)
        IN  /\ plot.ntotal = ndatasets * nfields
            /\ (pc \in {"draw", "returned"} /\ supplied.args.ax = None
                    /\ supplied.args.ncols = Num(1)) =>
                    (grid.created /\ grid.nrows = ndatasets * nfields /\ grid.ncols = 1)
            /\ pc = "returned" =>
                    \A n \in DOMAIN plot.draws :
                        LET d == plot.draws[n]
                        IN  /\ d.dataset = DictKeys(SuppliedDatasets)[d.i + 1]
                            /\ d.field = SuppliedFields[d.j + 1]
                            /\ d.axi = d.i * nfields + d.j

\* datasets {A, B}, fields [wspd, wdir]: a grid of (4, 1), and (B, wdir) in
\* subplot 3
C12_Witness ==
    /\ call.proc = "plot_timeheight" /\ pc = "returned"
    /\ DOMAIN SuppliedDatasets = {"A", "B"}
    /\ supplied.args.fields = List(<<"wspd", "wdir">>)
    /\ supplied.args.ax = None /\ supplied.args.ncols = Num(1)
    /\ plot.ntotal = 4 /\ grid.nrows = 4 /\ grid.ncols = 1
    /\ Len(plot.draws) = 4
    /\ \E n \in DOMAIN plot.draws :
            /\ plot.draws[n].dataset = "B" /\ plot.draws[n].field = "wdir"
            /\ plot.draws[n].axi = 3

\* a call of one of the four plot procedures has returned or raised
FigureCallOver ==
    call.proc \in FigureProcs /\ pc \in {"returned", "raised"}

\* the (dataset, field) pairs of the call whose dataset has, respectively
\* has not, the field
AvailablePairs ==
    {q \in (DOMAIN SuppliedDatasets) \X Range(SuppliedFields) :
        q[2] \in DOMAIN Val(SuppliedDatasets[q[1]])}

MissingPairs ==
    ((DOMAIN SuppliedDatasets) \X Range(SuppliedFields)) \ AvailablePairs

\* C14: in each of the four plot procedures, when a requested field is
\* absent from a dataset that has another requested field, the call does not
\* fail (an input-shape AssertionError aside), no series is drawn for that
\* pair, a diagnostic is emitted for it, and every other (dataset, field)
\* pair is drawn in a subplot of the grid.
C14_SkippedField ==
    (FigureCallOver /\ MissingPairs /= {} /\ Offenders = {}
        /\ err.type /= "AssertionError") =>
        /\ pc = "returned"
        /\ \A q \in MissingPairs :
                /\ ~\E n \in DOMAIN plot.draws :
                        plot.draws[n].dataset = q[1] /\ plot.draws[n].field = q[2]
                /\ \E n \in DOMAIN plot.skipped :
                        plot.skipped[n].dataset = q[1] /\ plot.skipped[n].field = q[2]
        /\ \A q \in AvailablePairs :
                \E n \in DOMAIN plot.draws :
                    /\ plot.draws[n].dataset = q[1] /\ plot.draws[n].field = q[2]
                    /\ plot.draws[n].axi \in 0..(plot.ntotal - 1)

\* the total subplot count the arguments of the call stand for
SuppliedTotal ==
    LET nfields == Len(SuppliedFields)
        ndatasets == Cardinality(DOMAIN SuppliedDatasets)
    IN  CASE supplied.proc = "plot_timeheight" -> nfields * ndatasets
          [] supplied.proc = "plot_spectrum" -> nfields * SuppliedSecondary
          [] supplied.proc \in PlotProcs ->
                IF \/ supplied.args.stack_by_datasets = Bool(TRUE)
                   \/ supplied.args.stack_by_datasets = None /\ SuppliedSecondary = 1
                THEN nfields * SuppliedSecondary
                ELSE nfields * ndatasets

\* the arguments of the call have one of the input-shape errors: a dataset
\* without any of the requested fields, a bare fieldlimits, fieldlabels or
\* colorschemes with other than one field, an unrecognised fieldorder, an
\* explicit ncols that does not divide the total, a supplied grid of the
\* wrong size
InputShapeError ==
    \/ Offenders /= {}
    \/ \E a \in {"fieldlimits", "fieldlabels", "colorschemes"} :
            IsBare(a) /\ Len(SuppliedFields) /= 1
    \/ /\ supplied.proc = "plot_profile"
       /\ supplied.args.fieldorder \notin {Str("C"), Str("F")}
    \/ /\ supplied.args.ax = None
       /\ supplied.args.ncols.tag = "num"
       /\ ~Divides(Val(supplied.args.ncols), SuppliedTotal)
    \/ /\ supplied.args.ax /= None
       /\ Product(Val(supplied.args.ax)) /= SuppliedTotal

\* C16: in every plot procedure a call with an input-shape error never
\* creates a grid of plot areas, never draws a series and never returns: it
\* is past normalisation only to raise in the grid helper; and whenever a
\* call raises an AssertionError, no grid was created and nothing was drawn.
C16_FailFast ==
    (call.proc \in FigureProcs /\ pc /= "idle") =>
        /\ InputShapeError =>
                /\ pc \in {"grid", "raised"}
                /\ ~grid.created
                /\ plot.draws = <<>>
        /\ (pc = "raised" /\ err.type = "AssertionError") =>
                /\ InputShapeError
                /\ ~grid.created
                /\ plot.draws = <<>>

C16_Witness ==
    /\ call.proc = "plot_profile" /\ pc = "raised"
    /\ err = Error("AssertionError", "ncols")
    /\ supplied.args.ncols = Num(2) /\ plot.ntotal = 1
    /\ Offenders = {}
    /\ ~grid.created /\ plot.draws = <<>>

\* the options a procedure sets itself for a drawn series d
ExpectedBase(d) ==
    LET byDataset == plot.stack_by_datasets = Bool(TRUE)
        label == IF byDataset THEN Str(d.dataset) ELSE SecondaryLabel(d.k)
        color == IF byDataset THEN DefaultColor(d.i) ELSE DefaultColor(d.k)
    IN  CASE call.proc = "plot_timeheight" ->
                [vmin |-> Num(Val(Val(self.fieldlimits)[d.field])[1]),
                 vmax |-> Num(Val(Val(self.fieldlimits)[d.field])[2]),
                 cmap |-> LET cs == supplied.args.colorschemes
                          IN  get_cmap(IF cs.tag = "str" THEN Val(cs)
                                       ELSE IF d.field \in DOMAIN Val(cs)
                                       THEN Val(Val(cs)[d.field])
                                       ELSE "viridis")]
          [] call.proc = "plot_timehistory_at_height" ->
                [linestyle |-> Str("-"), marker |-> None,
                 label |-> label, color |-> color]
          [] call.proc = "plot_profile" -> [label |-> label, color |-> color]
          [] call.proc = "plot_spectrum" -> [label |-> Str(d.dataset)]

\* C17: for every drawn series and every option key, the value handed to the
\* drawing primitive is the one of datasetkwargs[dataset] if the key is
\* there, otherwise the one of **kwargs if the key is there, otherwise the
\* procedure's own default; a dataset without an entry in datasetkwargs gets
\* the general options over the defaults; and no other key is handed over.
C17_OptionPrecedence ==
    (call.proc \in FigureProcs /\ pc \in {"returned", "raised"}) =>
        \A n \in DOMAIN plot.draws :
            LET d == plot.draws[n]
                general == Val(supplied.args.kwargs)
                perDataset == Val(supplied.args.datasetkwargs)
                special == IF d.dataset \in DOMAIN perDataset
                           THEN Val(perDataset[d.dataset])
                           ELSE <<>>
                base == ExpectedBase(d)
            IN  /\ DOMAIN d.props = DOMAIN base \cup DOMAIN general \cup DOMAIN special
                /\ \A key \in DOMAIN d.props :
                        d.props[key] =
                            IF key \in DOMAIN special THEN special[key]
                            ELSE IF key \in DOMAIN general THEN general[key]
                            ELSE base[key]

\* dataset A with a label of its own, dataset B without an entry, and a
\* general label and line width
C17_Witness ==
    /\ call.proc = "plot_timehistory_at_height" /\ pc = "returned"
    /\ supplied.args.kwargs = Dict("label" :> Str("general") @@ "linewidth" :> Num(2))
    /\ supplied.args.datasetkwargs = Dict("A" :> Dict("label" :> Str("special")))
    /\ \E n, m \in DOMAIN plot.draws :
            /\ plot.draws[n].dataset = "A" /\ plot.draws[m].dataset = "B"
            /\ plot.draws[n].props.label = Str("special")
            /\ plot.draws[n].props.linewidth = Num(2)
            /\ plot.draws[n].props.linestyle = Str("-")
            /\ plot.draws[m].props.label = Str("general")
            /\ plot.draws[m].props.color = DefaultColor(1)

\* C19: in plot_spectrum the labels applied are the standard spectrum
\* labels overlaid by the caller's labels after shorthand normalisation:
\* labelling raises no TypeError, and the row of a field shows the label the
\* normalised and merged mapping has for it, so the standard label for a
\* field without a label of the caller's, and a label given as a bare
\* string for the single field.
C19_SpectrumLabels ==
    (call.proc = "plot_spectrum" /\ pc \in {"returned", "raised"}) =>
        /\ err.type /= "TypeError"
        /\ pc = "returned" =>
                \A r \in DOMAIN plot.rows :
                    r <= Len(SuppliedFields) =>
                        plot.rows[r].ylabel =
                            Lookup(Val(self.fieldlabels), SuppliedFields[r])

\* the index of the group of series that shares a subplot with the drawn
\* series d of a field: its dataset, or its height or time
GroupOf(d) ==
    CASE call.proc = "plot_timeheight" -> d.i
      [] call.proc = "plot_spectrum" -> d.k
      [] call.proc \in PlotProcs ->
            IF plot.stack_by_datasets = Bool(TRUE) THEN d.k ELSE d.i

\* the subplot indices the procedure computes for field index j, over all
\* the groups
AxiOfField(j) ==
    {Axi(call.proc, self, plot, [i |-> g, j |-> j, k |-> g]) :
        g \in 0..((plot.ntotal \div plot.nfields) - 1)}

\* C20: in each of the four plot procedures, with a grid the call has
\* created, rows x columns is the total subplot count, every subplot index
\* computed is in 0..total-1, two series share a subplot exactly when they
\* have the same field and group, and the (field, group) pairs go one to one
\* onto 0..total-1.
C20_IndexCoverage ==
    (call.proc \in FigureProcs /\ grid.created /\ pc \in {"draw", "returned", "raised"}) =>
        /\ grid.nrows * grid.ncols = plot.ntotal
        /\ err /= Error("IndexError", "axv")
        /\ \A n \in DOMAIN plot.draws : plot.draws[n].axi \in 0..(plot.ntotal - 1)
        /\ \A n, m \in DOMAIN plot.draws :
                (plot.draws[n].axi = plot.draws[m].axi) <=>
                    /\ plot.draws[n].j = plot.draws[m].j
                    /\ GroupOf(plot.draws[n]) = GroupOf(plot.draws[m])
        /\ UNION {AxiOfField(j) : j \in 0..(plot.nfields - 1)} = 0..(plot.ntotal - 1)
        /\ \A j \in 0..(plot.nfields - 1) :
                Cardinality(AxiOfField(j)) = plot.ntotal \div plot.nfields

C20_Witness ==
    /\ call.proc = "plot_spectrum" /\ pc = "returned" /\ grid.created
    /\ plot.nfields = 2 /\ plot.nsecondary = 3 /\ plot.ndatasets = 2
    /\ grid.nrows = 2 /\ grid.ncols = 3
    /\ {plot.draws[n].axi : n \in DOMAIN plot.draws} = 0..5
    /\ Len(plot.draws) = 12

\* the (dataset, field, subplot) assignments of a sequence of loop events
Assignments(events) ==
    {<<events[n].dataset, events[n].field, events[n].axi>> :
        n \in {m \in DOMAIN events : events[m].kind = "draw"}}

\* the assignments plot_timeheight draws when the field of this call is
\* passed as the one-element list: the record, the counts and the grid are
\* those of this call, the loop runs over the list
ListCallAssignments ==
    LET listed == [call.args EXCEPT !.fields = List(<<Val(supplied.args.fields)>>)]
    IN  Assignments(RunLoop(LoopEvents("plot_timeheight", self, plot, listed),
                            grid.nrows * grid.ncols).events)

\* C21: plot_timeheight called with one field as a bare name draws the same
\* (dataset, field) to subplot assignments as the call with the one-element
\* list of that name.
C21_BareFieldAsList ==
    (call.proc = "plot_timeheight" /\ pc = "returned"
            /\ supplied.args.fields.tag = "str") =>
        Assignments(plot.draws) = ListCallAssignments

\* C22: when plot_spectrum has labelled its rows, every row r of the grid
\* stands for field r, and the subplot r*ncols that gets the label and the
\* limits of field r is the subplot r*ntimes of that field's first time.
C22_RowFieldCorrespondence ==
    (call.proc = "plot_spectrum" /\ pc \in {"returned", "raised"}
            /\ plot.draws /= <<>>) =>
        \A r \in 0..(grid.nrows - 1) :
            /\ r < plot.nfields
            /\ r * grid.ncols = SpectrumAxi(r, 0, plot.nfields, plot.nsecondary)
            /\ (r + 1 \in DOMAIN plot.rows) =>
                    \A n \in DOMAIN plot.draws :
                        (plot.draws[n].j = r /\ plot.draws[n].k = 0) =>
                            plot.draws[n].axi = plot.rows[r + 1].axis

-----------------------------------------------------------------------------
(* plot_timeheight called again and again, with and without colorschemes   *)
(* and fieldlimits                                                          *)

\* a dataset with both fields, every column with the same values, and two
\* datasets of which the second has no 'wdir'
ContourDatasets ==
    {DataFrame([f \in AllFields |-> vs]) : vs \in ValueSets} \cup
    {Dict("A" :> DataFrame([f \in AllFields |-> 0..MaxVal])
          @@ "B" :> DataFrame("wspd" :> 0..MaxVal))}

\* lines 215-229: colorschemes and fieldlimits are passed or left out, the
\* other arguments are left out or at their defaults
ContourArgs ==
    {[datasets |-> d, fields |-> f, fig |-> None, ax |-> None, ncols |-> Num(1),
      datasetkwargs |-> EmptyDict, kwargs |-> EmptyDict] @@ opt :
        d \in ContourDatasets, f \in FieldArgs,
        opt \in {<<>>} \cup [colorschemes : {EmptyDict}]
                 \cup [fieldlimits : {EmptyDict, Dict("wdir" :> Tuple(<<0, 9>>))}]
                 \cup [colorschemes : {EmptyDict}, fieldlimits : {EmptyDict}]}

ContourCall ==
    /\ pc = "idle"
    /\ \E args \in ContourArgs : Enter("plot_timeheight", args)

InitContour == Idle

NextContour == ContourCall \/ PlotGrid \/ PlotDraw \/ PlotReturn

SpecContour == InitContour /\ [][NextContour]_vars

\* the record the call in progress makes from its own arguments alone
OwnRecord ==
    Normalise(supplied.proc, Bound(supplied.proc, supplied.args, NewDefaults))

\* C15: no state crosses calls: the normalised record of a call (field
\* limits, colormap names and colormaps) is the one its own arguments give,
\* whatever calls came before, and the option mappings the caller passed and
\* those used as defaults are as they were before the call.
C15_NoSharedState ==
    (call.proc \in FigureProcs /\ pc /= "idle") =>
        /\ defaults = NewDefaults
        /\ call.args = supplied.args
        /\ pc = "raised" => (plot = NoPlot => OwnRecord.err = err)
        /\ pc \in {"grid", "draw", "returned"} =>
                /\ OwnRecord.err = NoError
                /\ \A a \in {"fieldlimits", "colorschemes", "cmap"} :
                        self[a] = OwnRecord.o[a]
=============================================================================
